---- MODULE Spec2Model ----
(***************************************************************************)
(* A model of osu-song-browser: the playback position engine of           *)
(* src/osu_mp3_browser.py (manual wall-clock timing reconciled against an  *)
(* audio backend whose primitives may fail) and the playlist store of     *)
(* src/osu_mp3_browser/playlist.py.                                        *)
(*                                                                         *)
(* Time is counted in ticks of half a second (the poll period of          *)
(* update_progress); int(...) of a number of seconds is the truncating    *)
(* division of a number of ticks by TicksPerSec.                          *)
(***************************************************************************)
EXTENDS Integers, Sequences, FiniteSets, TLC

\* ------------------------------------------------------------------ bounds
MaxTime == 3
MaxDur == 2
MaxTimers == 3
Epoch == 8
TicksPerSec == 2
ProgressMax == 1000

Paths == {"a", "b"}
NoPath == "none"
None == <<>>
Some(x) == <<x>>
Val(o) == o[1]

\* ------------------------------------------------------------- variables
VARIABLES
    now,                \* time.time(), in ticks
    mixer_init,         \* pygame.mixer.get_init()
    playing_path,       \* self._playing_path
    start_time,         \* self._start_time
    pause_time,         \* self._pause_time
    paused,             \* self.paused
    progress_after_id,  \* self._progress_after_id
    timers,             \* the pending Tk after() callbacks of update_progress
    metadata,           \* self._metadata
    progress,           \* self.progress['value']
    time_label,         \* self.time_label text, as <<position, total>>
    pause_btn,          \* self.pause_btn text
    busy,               \* backend: music is playing (what get_busy reports unpaused)
    bpaused,            \* backend: music is paused
    lastOp,             \* history: the handler that ran last, and its argument
    playlists,          \* PlaylistManager.playlists: the Playlist objects, in order
    current_playlist,   \* PlaylistManager.current_playlist: an object's id, 0 for None
    current_index,      \* PlaylistManager.current_index
    disk,               \* playlists_dir: the record stored under each name
    last_call,          \* history: the playlist call that ran last, and its result
    fd,                 \* a Playlist.from_dict call: record, paths on disk, result
    ed,                 \* an ensure_duration call: cache entry, sources, result
    sl,                 \* strip_leading_numbers calls: argument, result, result of the result
    mm,                 \* a get_mp3_metadata call: the tag source's outcome, file stem, result
    bg,                 \* a get_osu_background call: the map file's lines, result
    ev,                 \* get_osu_background on a map file's text, by either copy of the function
    sc,                 \* the scan threads, the library lists and the cache they share with ensure_duration
    sk                  \* the backend calls of one seek_to: what each would do, the calls made

playerVars == <<now, mixer_init, playing_path, start_time, pause_time, paused,
                progress_after_id, timers, metadata, progress, time_label,
                pause_btn, busy, bpaused, lastOp>>

plVars == <<playlists, current_playlist, current_index, disk, last_call>>

\* The calls of the module-level functions, each with its inputs and result,
\* and the threads of scan_and_populate.
fnVars == <<fd, ed, sl, mm, bg, ev, sc, sk>>

vars == <<now, mixer_init, playing_path, start_time, pause_time, paused,
          progress_after_id, timers, metadata, progress, time_label,
          pause_btn, busy, bpaused, lastOp,
          playlists, current_playlist, current_index, disk, last_call,
          fnVars>>

\* The engine and backend state as one record, so that a handler's statements
\* and the calls it makes compose as in the code.
St ==
    [ mixer_init |-> mixer_init, playing_path |-> playing_path,
      start_time |-> start_time, pause_time |-> pause_time, paused |-> paused,
      progress_after_id |-> progress_after_id, timers |-> timers,
      metadata |-> metadata, progress |-> progress, time_label |-> time_label,
      pause_btn |-> pause_btn, busy |-> busy, bpaused |-> bpaused ]

Commit(s) ==
    /\ mixer_init' = s.mixer_init
    /\ playing_path' = s.playing_path
    /\ start_time' = s.start_time
    /\ pause_time' = s.pause_time
    /\ paused' = s.paused
    /\ progress_after_id' = s.progress_after_id
    /\ timers' = s.timers
    /\ metadata' = s.metadata
    /\ progress' = s.progress
    /\ time_label' = s.time_label
    /\ pause_btn' = s.pause_btn
    /\ busy' = s.busy
    /\ bpaused' = s.bpaused

Op(name, arg) == [op |-> name, arg |-> arg, path |-> NoPath]
OpPath(name, path) == [op |-> name, arg |-> 0, path |-> path]

\* ------------------------------------------------------- pure functions
\* Python's int(): truncation toward zero of a / b, b > 0.
TruncDiv(a, b) == IF a >= 0 THEN a \div b ELSE -((-a) \div b)

\* int(x) of x seconds held as a number of ticks.
IntSec(ticks) == TruncDiv(ticks, TicksPerSec)

\* format_duration: '' for a zero, otherwise minutes and two-digit seconds.
\* '' is <<>> and "m:ss" is <<m, ss>>.
format_duration(sec) ==
    IF sec = 0 THEN <<>> ELSE <<sec \div 60, sec % 60>>

ZeroText == <<0, 0>>    \* the literal "0:00"

\* int(min(1.0, pos_sec / total) * 1000)
ProgressValue(pos_sec, total) ==
    IF pos_sec >= total THEN ProgressMax
    ELSE TruncDiv(pos_sec * ProgressMax, total)

\* ------------------------------------------------------ the audio backend
\* Each primitive either succeeds (ok) or raises; a raising call changes nothing.
BStop(s, ok) == IF ok THEN [s EXCEPT !.busy = FALSE, !.bpaused = FALSE] ELSE s
BPlay(s, ok) == IF ok THEN [s EXCEPT !.busy = TRUE, !.bpaused = FALSE] ELSE s
BPause(s, ok) == IF ok THEN [s EXCEPT !.bpaused = s.busy] ELSE s
BUnpause(s, ok) == IF ok THEN [s EXCEPT !.bpaused = FALSE] ELSE s

\* What get_busy() may report: a paused stream is reported busy by some
\* backends and not busy by others.
BusyIn(s) == IF s.bpaused THEN BOOLEAN ELSE {s.busy}

\* What get_pos() may report, in milliseconds; read only when there is no
\* manual timing base.
PosIn(s) == IF s.start_time = None THEN {-1, 0, 1500} ELSE {0}

\* ------------------------------------------------------- ensure_duration
FileLen(p) == MaxDur     \* the length, in whole seconds, of the audio files

\* The outcomes of the two length sources, <<tag length, backend length>>: 0 for
\* a source that fails or reports zero.
SourceOutcomes(p) == {<<FileLen(p), 0>>, <<0, FileLen(p)>>, <<0, 0>>}

\* What ensure_duration returns, given the cache and the sources' outcomes.
EnsureDurationRet(md, p, d) ==
    IF md[p].duration # 0 THEN md[p].duration
    ELSE IF d[1] # 0 THEN d[1]
    ELSE IF d[2] # 0 THEN d[2]
    ELSE 0

\* The values one ensure_duration call may return in state s.
DurIn(s, p) ==
    IF p = NoPath THEN {0}
    ELSE {EnsureDurationRet(s.metadata, p, d) : d \in SourceOutcomes(p)}

\* Mutant: whatever the call returns is stored, a zero included.
EnsureDurationCacheAlways(md, p, r) ==
    [md EXCEPT ![p] = [present |-> TRUE, duration |-> r]]

\* The cache after an ensure_duration call that returned r: a nonzero length
\* found by a source is stored, a zero stores nothing.
EnsureDurationCache(md, p, r) ==
    IF md[p].duration # 0 \/ r = 0 THEN md
    ELSE [md EXCEPT ![p] = [present |-> TRUE, duration |-> r]]

\* self._metadata.get(str(path), {}).get('duration') or self.ensure_duration(path)
CachedOrEnsured(s, p, r) ==
    IF s.metadata[p].duration # 0 THEN s.metadata[p].duration ELSE r

\* ------------------------------------------------------- update_progress
\* The id Tk's after() returns: one that names no pending callback (Tk never
\* reuses a live id; the caller overwrites the id it held). 0: none is left.
NewId(s) ==
    LET free == {i \in 1..MaxTimers : i \notin s.timers}
    IN IF free = {} THEN 0 ELSE CHOOSE i \in free : \A j \in free : i <= j

\* The inputs of one update_progress call: what ensure_duration returns, what
\* get_busy() reports and what get_pos() reports.
DummyUp == [d |-> 0, b |-> FALSE, pm |-> 0]

UpInputs(s) ==
    IF s.playing_path = NoPath \/ ~s.mixer_init THEN {DummyUp}
    ELSE {[d |-> d, b |-> b, pm |-> pm] :
            d \in DurIn(s, s.playing_path), b \in BusyIn(s), pm \in PosIn(s)}

\* Mutant: the position is read off the running clock even while paused.
PollPosRunning(s, pm) ==
    IF s.start_time # None THEN IntSec(now - Val(s.start_time))
    ELSE IF pm < 0 THEN 0 ELSE TruncDiv(pm, 1000)

\* pos_sec of update_progress: the manual clock when there is a timing base,
\* the backend's position otherwise.
PollPos(s, pm) ==
    IF s.start_time # None
    THEN IF s.paused /\ s.pause_time # None
         THEN IntSec(Val(s.pause_time) - Val(s.start_time))
         ELSE IF ~s.paused THEN IntSec(now - Val(s.start_time))
         ELSE 0
    ELSE IF pm < 0 THEN 0 ELSE TruncDiv(pm, 1000)

\* Mutant: completion clears the track and leaves the display as it was.
MarkCompleteNoDisplay(s, total) == [s EXCEPT !.playing_path = NoPath]

\* The completion branch: backend not busy while not paused.
MarkComplete(s, total) ==
    [s EXCEPT !.progress = IF total # 0 THEN ProgressMax ELSE @,
              !.time_label = IF total # 0
                             THEN <<format_duration(total), format_duration(total)>>
                             ELSE @,
              !.playing_path = NoPath]

\* The display of a position and the scheduling of the next poll.
ShowAndSchedule(s, pos_sec, total) ==
    [s EXCEPT !.progress = IF total # 0 THEN ProgressValue(pos_sec, total) ELSE 0,
              !.time_label = IF total # 0
                             THEN <<format_duration(pos_sec), format_duration(total)>>
                             ELSE <<format_duration(pos_sec), ZeroText>>,
              !.progress_after_id = Some(NewId(s)),
              !.timers = s.timers \cup {NewId(s)}]

\* Variant: a backend that is not busy means completion, paused or not.
update_progressIgnoresPause(s, in) ==
    IF s.playing_path = NoPath \/ ~s.mixer_init THEN s
    ELSE LET path == s.playing_path
             total == CachedOrEnsured(s, path, in.d)
             s1 == [s EXCEPT !.metadata = EnsureDurationCache(s.metadata, path, in.d)]
         IN IF ~in.b
            THEN MarkComplete(s1, total)
            ELSE ShowAndSchedule(s1, PollPos(s1, in.pm), total)

\* update_progress: completion when the backend is not busy and the engine
\* not paused, else the display of the position and the next poll.
update_progress(s, in) ==
    IF s.playing_path = NoPath \/ ~s.mixer_init THEN s
    ELSE LET path == s.playing_path
             total == CachedOrEnsured(s, path, in.d)
             s1 == [s EXCEPT !.metadata = EnsureDurationCache(s.metadata, path, in.d)]
         IN IF ~in.b /\ ~s.paused
            THEN MarkComplete(s1, total)
            ELSE ShowAndSchedule(s1, PollPos(s1, in.pm), total)

\* --------------------------------------------------------------- seek_to
\* The outcomes of the backend calls of one seek: stop, set_pos, the play()
\* after it, play(0, pos) and the final play(). A call that is not reached is
\* FALSE.
SeekOutcomes ==
    {o \in [stop : BOOLEAN, set_pos : BOOLEAN, play_a : BOOLEAN,
            play_off : BOOLEAN, play_c : BOOLEAN] :
        /\ o.play_a => o.set_pos
        /\ o.play_off => ~o.play_a
        /\ o.play_c => ~o.play_a /\ ~o.play_off}

\* The clamp of the target, in ticks.
ClampTarget(pos, total) ==
    IF total # 0 /\ pos > total * TicksPerSec THEN total * TicksPerSec ELSE pos

\* Whether the chain of start attempts started playback: set_pos then play(),
\* else play(0, pos), else the final play().
StartChain(o) ==
    IF o.set_pos /\ o.play_a THEN TRUE
    ELSE IF o.play_off THEN TRUE
    ELSE o.play_c

\* What the calls of one seek do to the backend, for every outcome of them.
SeekEffects ==
    {[stop |-> o.stop, started |-> StartChain(o)] : o \in SeekOutcomes}

\* The backend after the stop and the chain of start attempts.
SeekBackend(s, e) == BPlay(BStop(s, e.stop), e.started)

\* Mutant: the pending callback is not cancelled.
CancelNothing(s) == s

\* after_cancel of the id held, which stays held.
CancelHeld(s) ==
    IF s.progress_after_id # None
    THEN [s EXCEPT !.timers = @ \ {Val(s.progress_after_id)}]
    ELSE s

\* Mutant: the timing base is set to now, whatever the target.
SeekTimingNoOffset(s, pos) ==
    [s EXCEPT !.start_time = Some(now), !.pause_time = None, !.paused = FALSE]

\* The manual timing written after the start attempts.
SeekTiming(s, pos) ==
    [s EXCEPT !.start_time = Some(now - pos), !.pause_time = None,
              !.paused = FALSE]

\* seek_to up to its call of update_progress.
SeekCore(s, pos, d1, e) ==
    LET path == s.playing_path
        total == CachedOrEnsured(s, path, d1)
        s1 == [s EXCEPT !.metadata = EnsureDurationCache(s.metadata, path, d1)]
    IN CancelHeld(SeekTiming(SeekBackend(s1, e), ClampTarget(pos, total)))

DummySeek == [d1 |-> 0, e |-> [stop |-> FALSE, started |-> FALSE],
              up |-> DummyUp]

SeekInputs(s, pos) ==
    IF s.playing_path = NoPath THEN {DummySeek}
    ELSE UNION { UNION { {[d1 |-> d1, e |-> e, up |-> u] :
                             u \in UpInputs(SeekCore(s, pos, d1, e))} :
                         e \in SeekEffects } :
                 d1 \in DurIn(s, s.playing_path) }

seek_to(s, pos, in) ==
    IF s.playing_path = NoPath THEN s
    ELSE update_progress(SeekCore(s, pos, in.d1, in.e), in.up)

\* ---------------------------------------------------------- toggle_pause
\* Python truth of an optional float: set and not zero.
Truthy(o) == o # None /\ Val(o) # 0

\* Variant: the pause time is recorded only when the backend pause succeeded.
PauseBranchBackendOnly(s, ok) ==
    [BPause(s, ok) EXCEPT !.paused = TRUE, !.pause_btn = "Resume",
                          !.pause_time = IF ok THEN Some(now) ELSE @]

\* The pause branch: the backend pause is attempted, the manual pause time is
\* recorded whether or not it succeeded.
PauseBranch(s, ok) ==
    [BPause(s, ok) EXCEPT !.paused = TRUE, !.pause_btn = "Resume",
                          !.pause_time = Some(now)]

\* pos_sec of the resume fallback, in whole seconds.
PausedPos(s) ==
    IF s.start_time # None /\ s.pause_time # None
    THEN IntSec(Val(s.pause_time) - Val(s.start_time))
    ELSE 0

\* The adjustment of the timing base by the pause duration.
AdjustBase(s) ==
    IF Truthy(s.pause_time) /\ Truthy(s.start_time)
    THEN [s EXCEPT !.start_time = Some(Val(@) + (now - Val(s.pause_time)))]
    ELSE s

\* The resume branch: unpause, or on its failure a seek to the paused position.
ResumeBranch(s, ok, seekIn) ==
    LET s1 == BUnpause(s, ok)
        s2 == IF ok THEN s1
              ELSE seek_to(s1, PausedPos(s1) * TicksPerSec, seekIn)
        s3 == [s2 EXCEPT !.paused = FALSE, !.pause_btn = "Pause"]
    IN [AdjustBase(s3) EXCEPT !.pause_time = None]

ToggleInputs(s) ==
    IF ~s.mixer_init \/ s.playing_path = NoPath THEN {[ok |-> FALSE, seek |-> DummySeek]}
    ELSE IF ~s.paused THEN {[ok |-> k, seek |-> DummySeek] : k \in BOOLEAN}
    ELSE {[ok |-> TRUE, seek |-> DummySeek]}
         \cup {[ok |-> FALSE, seek |-> i] :
                 i \in SeekInputs(s, PausedPos(s) * TicksPerSec)}

\* Variant: toggle_pause without the test of the playing path.
toggle_pauseAnyState(s, in) ==
    IF ~s.mixer_init THEN s
    ELSE IF ~s.paused THEN PauseBranch(s, in.ok)
    ELSE ResumeBranch(s, in.ok, in.seek)

\* toggle_pause: nothing without a mixer or a playing path, else the pause or
\* the resume branch.
toggle_pause(s, in) ==
    IF ~s.mixer_init THEN s
    ELSE IF s.playing_path = NoPath THEN s
    ELSE IF ~s.paused THEN PauseBranch(s, in.ok)
    ELSE ResumeBranch(s, in.ok, in.seek)

\* Mutant: stop leaves the pause time and the paused flag as they were.
stopKeepsPause(s) ==
    LET s1 == IF s.mixer_init THEN [s EXCEPT !.busy = FALSE, !.bpaused = FALSE] ELSE s
        s2 == IF s1.progress_after_id # None
              THEN [s1 EXCEPT !.timers = @ \ {Val(s1.progress_after_id)}]
              ELSE s1
    IN [s2 EXCEPT !.playing_path = NoPath, !.start_time = None,
                  !.pause_btn = "Pause", !.progress_after_id = None,
                  !.progress = 0, !.time_label = <<ZeroText, ZeroText>>]

\* ------------------------------------------------------------------ stop
\* music.stop() is called only under get_init(), the one condition under which
\* it raises; every field is then cleared.
stop(s) ==
    LET s1 == IF s.mixer_init THEN BStop(s, TRUE) ELSE s
    IN [CancelHeld(s1) EXCEPT !.playing_path = NoPath, !.start_time = None,
                              !.pause_time = None, !.pause_btn = "Pause",
                              !.paused = FALSE, !.progress_after_id = None,
                              !.progress = 0,
                              !.time_label = <<ZeroText, ZeroText>>]

\* ------------------------------------------------------------ _play_path
PlayOk(in) == in.stop /\ in.load /\ in.play

\* Mutant: a new play keeps the pause time of the track it replaces.
PlayStartedKeepsPause(s, path) ==
    LET s1 == [s EXCEPT !.busy = TRUE, !.bpaused = FALSE,
                        !.playing_path = path, !.start_time = Some(now)]
        s2 == IF s1.progress_after_id # None
              THEN [s1 EXCEPT !.timers = @ \ {Val(s1.progress_after_id)}]
              ELSE s1
    IN [s2 EXCEPT !.progress_after_id = None, !.pause_btn = "Pause"]

\* The state at the call of update_progress in a play whose backend calls
\* succeeded.
PlayStarted(s, path) ==
    LET s1 == BPlay(BStop(s, TRUE), TRUE)
        s2 == [s1 EXCEPT !.playing_path = path, !.start_time = Some(now),
                         !.pause_time = None]
    IN [CancelHeld(s2) EXCEPT !.progress_after_id = None, !.pause_btn = "Pause"]

PlayInputs(s, path) ==
    {[stop |-> FALSE, load |-> FALSE, play |-> FALSE, up |-> DummyUp]}
    \cup (IF s.mixer_init
          THEN {[stop |-> TRUE, load |-> FALSE, play |-> FALSE, up |-> DummyUp],
                [stop |-> TRUE, load |-> TRUE, play |-> FALSE, up |-> DummyUp]}
               \cup {[stop |-> TRUE, load |-> TRUE, play |-> TRUE, up |-> u] :
                       u \in UpInputs(PlayStarted(s, path))}
          ELSE {})

\* A failing stop, load or play leaves the engine's fields as they were (the
\* error is shown); the backend keeps the effect of the calls that succeeded.
play_path(s, path, in) ==
    IF ~in.stop THEN s
    ELSE IF ~in.load THEN BStop(s, TRUE)
    ELSE IF ~in.play THEN BStop(s, TRUE)
    ELSE [update_progress(PlayStarted(s, path), in.up) EXCEPT !.paused = FALSE]

\* ------------------------------------------------------ on_progress_click
Widths == {0, 2}
Xs == {-1, 1, 3}

\* frac * total, in ticks, for frac = max(0, min(1, x / w)).
ClickTarget(x, w, total) ==
    LET xc == IF x < 0 THEN 0 ELSE IF x > w THEN w ELSE x
    IN (xc * total * TicksPerSec) \div w

ClickInputs(s, x, w) ==
    IF w <= 0 \/ s.playing_path = NoPath THEN {[d0 |-> 0, seek |-> DummySeek]}
    ELSE UNION { LET total == CachedOrEnsured(s, s.playing_path, d0)
                     s0 == [s EXCEPT !.metadata =
                              EnsureDurationCache(s.metadata, s.playing_path, d0)]
                 IN IF total = 0 THEN {[d0 |-> d0, seek |-> DummySeek]}
                    ELSE {[d0 |-> d0, seek |-> i] :
                            i \in SeekInputs(s0, ClickTarget(x, w, total))}
               : d0 \in DurIn(s, s.playing_path) }

on_progress_click(s, x, w, in) ==
    IF w <= 0 THEN s
    ELSE IF s.playing_path = NoPath THEN s
    ELSE LET total == CachedOrEnsured(s, s.playing_path, in.d0)
             s0 == [s EXCEPT !.metadata =
                      EnsureDurationCache(s.metadata, s.playing_path, in.d0)]
         IN IF total = 0 THEN s0
            ELSE seek_to(s0, ClickTarget(x, w, total), in.seek)

\* ------------------------------------------------- the player's actions
\* The targets a caller may pass to seek_to, in ticks: below zero, inside and
\* beyond every duration.
Targets == {-1, 0, 1, MaxDur * TicksPerSec, MaxDur * TicksPerSec + 1}

PlayerInit ==
    /\ now = Epoch
    /\ mixer_init \in BOOLEAN
    /\ playing_path = NoPath
    /\ start_time = None
    /\ pause_time = None
    /\ paused = FALSE
    /\ progress_after_id = None
    /\ timers = {}
    /\ metadata = [p \in Paths |-> [present |-> FALSE, duration |-> 0]]
    /\ progress = 0
    /\ time_label = <<ZeroText, ZeroText>>
    /\ pause_btn = "Pause"
    /\ busy = FALSE
    /\ bpaused = FALSE
    /\ lastOp = Op("init", 0)

\* A handler's result is committed when Tk could allot the timer it asked for.
Finish(s, op) ==
    /\ s.progress_after_id # Some(0)
    /\ Commit(s)
    /\ lastOp' = op
    /\ UNCHANGED now
    /\ UNCHANGED <<plVars, fnVars>>

\* Wall-clock time passes.
Tick ==
    /\ now < Epoch + MaxTime
    /\ now' = now + 1
    /\ lastOp' = Op("tick", 0)
    /\ UNCHANGED <<mixer_init, playing_path, start_time, pause_time, paused,
                   progress_after_id, timers, metadata, progress, time_label,
                   pause_btn, busy, bpaused>>
    /\ UNCHANGED <<plVars, fnVars>>

\* The backend reaches the end of the stream it is playing.
TrackEnds ==
    /\ busy /\ ~bpaused
    /\ busy' = FALSE
    /\ lastOp' = Op("track_end", 0)
    /\ UNCHANGED <<now, mixer_init, playing_path, start_time, pause_time, paused,
                   progress_after_id, timers, metadata, progress, time_label,
                   pause_btn, bpaused>>
    /\ UNCHANGED <<plVars, fnVars>>

PlayPath ==
    \E path \in Paths : \E in \in PlayInputs(St, path) :
        Finish(play_path(St, path, in),
               OpPath(IF PlayOk(in) THEN "play" ELSE "play_failed", path))

TogglePause ==
    \E in \in ToggleInputs(St) :
        Finish(toggle_pause(St, in),
               Op(IF ~mixer_init \/ playing_path = NoPath THEN "toggle_idle"
                  ELSE IF ~paused THEN "pause"
                  ELSE IF in.ok THEN "resume" ELSE "resume_fallback", 0))

Stop == Finish(stop(St), Op("stop", 0))

\* A pending after() callback fires: Tk drops it and runs update_progress.
TimerFire ==
    \E t \in timers :
        LET s == [St EXCEPT !.timers = @ \ {t}]
        IN \E in \in UpInputs(s) : Finish(update_progress(s, in), Op("poll", 0))

SeekTo ==
    \E pos \in Targets : \E in \in SeekInputs(St, pos) :
        Finish(seek_to(St, pos, in),
               Op(IF playing_path = NoPath THEN "seek_idle" ELSE "seek_to", pos))

ProgressClick ==
    \E x \in Xs, w \in Widths : \E in \in ClickInputs(St, x, w) :
        Finish(on_progress_click(St, x, w, in), Op("click", 0))

\* The durations get_mp3_metadata may put in the record of p: the tag length,
\* or none (0) when the tag library is missing, the read fails or the length
\* is zero.
ScanDurations(p) == {0, FileLen(p)}

\* scan_and_populate, at one file: the record just read replaces the cache
\* entry of the path.
ScanStore ==
    /\ \E p \in Paths : \E d \in ScanDurations(p) :
        /\ metadata' = [metadata EXCEPT ![p] = [present |-> TRUE, duration |-> d]]
        /\ lastOp' = OpPath("scan", p)
    /\ UNCHANGED <<now, mixer_init, playing_path, start_time, pause_time, paused,
                   progress_after_id, timers, progress, time_label,
                   pause_btn, busy, bpaused>>
    /\ UNCHANGED <<plVars, fnVars>>

\* The steps that read or write the metadata cache.
LibraryNext ==
    \/ ScanStore
    \/ PlayPath
    \/ TimerFire
    \/ SeekTo
    \/ TrackEnds

PlayerNext ==
    \/ Tick
    \/ TrackEnds
    \/ PlayPath
    \/ TogglePause
    \/ Stop
    \/ TimerFire
    \/ SeekTo
    \/ ProgressClick

\* Wall-clock time passes, up to a horizon beyond every track's length.
MaxLate == 7

LongTick ==
    /\ now < Epoch + MaxLate
    /\ now' = now + 1
    /\ lastOp' = Op("tick", 0)
    /\ UNCHANGED <<mixer_init, playing_path, start_time, pause_time, paused,
                   progress_after_id, timers, metadata, progress, time_label,
                   pause_btn, busy, bpaused>>
    /\ UNCHANGED <<plVars, fnVars>>

\* The steps between plays and stops when the user never seeks.
UnsoughtNext ==
    \/ LongTick
    \/ TrackEnds
    \/ PlayPath
    \/ TogglePause
    \/ Stop
    \/ TimerFire

\* ------------------------------------------------------------- Playlist
MaxPlaylists == 2
MaxFiles == 1

Names == {"p", "q"}
SongPaths == {"a", "b"}
Songs == {<<"a", "A">>, <<"b", "B">>}     \* (path, display_title)

\* A Playlist object: its identity, its name and its songs.
Playlist(id, name, songs) == [id |-> id, name |-> name, songs |-> songs]

InSeq(x, seq) == \E i \in 1..Len(seq) : seq[i] = x

\* list.pop(index) for a valid 0-based index.
Pop(seq, index) ==
    [i \in 1..(Len(seq) - 1) |-> IF i <= index THEN seq[i] ELSE seq[i + 1]]

add_song(songs, song) == IF ~InSeq(song, songs) THEN Append(songs, song) ELSE songs

remove_song(songs, index) ==
    IF 0 <= index /\ index < Len(songs) THEN Pop(songs, index) ELSE songs

\* Optional result: None or Some(song).
get_song(songs, index) ==
    IF 0 <= index /\ index < Len(songs) THEN Some(songs[index + 1]) ELSE None

\* The orders random.shuffle may leave the list in.
Shuffles(songs) ==
    {[i \in 1..Len(songs) |-> songs[f[i]]] :
        f \in {g \in [1..Len(songs) -> 1..Len(songs)] :
                  \A i, j \in 1..Len(songs) : i # j => g[i] # g[j]}}

\* Mutant: from_dict keeps every entry of the record.
from_dictKeepsAll(rec, ex) == rec

\* Playlist.from_dict, on a record's songs: the entries whose path exists, in
\* order, appended without a membership check.
from_dict(rec, ex) == SelectSeq(rec, LAMBDA s : s[1] \in ex)

\* ------------------------------------------------------ PlaylistManager
\* The position in self.playlists of the object with identity id, 0 if none.
PosOf(pls, id) ==
    IF \E i \in 1..Len(pls) : pls[i].id = id
    THEN CHOOSE i \in 1..Len(pls) : pls[i].id = id
    ELSE 0

\* A fresh object identity.
NewObj(pls) ==
    CHOOSE k \in 1..(Len(pls) + 1) : \A i \in 1..Len(pls) : pls[i].id # k

\* get_playlist_by_name: the position of the first playlist of that name, 0 for None.
get_playlist_by_name(pls, name) ==
    IF \E i \in 1..Len(pls) : pls[i].name = name
    THEN CHOOSE i \in 1..Len(pls) :
            pls[i].name = name /\ \A j \in 1..(i - 1) : pls[j].name # name
    ELSE 0

\* Python truth of a Playlist reference: not None and, Playlist defining
\* __len__, not empty.
PlaylistTruthy(pls, pos) == pos # 0 /\ Len(pls[pos].songs) # 0

\* The songs of the current playlist; <<>> when there is none.
CurrentSongs ==
    IF PosOf(playlists, current_playlist) = 0 THEN <<>>
    ELSE playlists[PosOf(playlists, current_playlist)].songs

\* "not self.current_playlist or len(self.current_playlist) == 0"
NoCurrentSongs == current_playlist = 0 \/ Len(CurrentSongs) = 0

NoName == ""
Call(name, ret) == [op |-> name, ret |-> ret, obj |-> 0, name |-> NoName]
CallObj(name, id) == [op |-> name, ret |-> None, obj |-> id, name |-> NoName]
\* load_playlist(name) and the identity of the object it returned, 0 for None.
CallLoad(name, id) == [op |-> "load_playlist", ret |-> None, obj |-> id, name |-> name]

PlaylistInit ==
    /\ playlists = <<>>
    /\ current_playlist = 0
    /\ current_index = 0
    /\ disk = [n \in Names |-> None]
    /\ last_call = Call("init", None)

CreatePlaylist ==
    /\ UNCHANGED <<playerVars, fnVars>>
    /\ \E name \in Names :
        /\ Len(playlists) < MaxPlaylists
        /\ playlists' = Append(playlists, Playlist(NewObj(playlists), name, <<>>))
        /\ current_playlist' = NewObj(playlists)
        /\ last_call' = CallObj("create_playlist", NewObj(playlists))
        /\ UNCHANGED <<current_index, disk>>

\* delete_playlist of a playlist of the manager: the object leaves the list,
\* the file of its name is unlinked, the cursor is reset if it was current.
DeletePlaylist ==
    /\ UNCHANGED <<playerVars, fnVars>>
    /\ \E pos \in 1..Len(playlists) :
        /\ playlists' = Pop(playlists, pos - 1)
        /\ disk' = [disk EXCEPT ![playlists[pos].name] = None]
        /\ IF current_playlist = playlists[pos].id
           THEN current_playlist' = 0 /\ current_index' = 0
           ELSE UNCHANGED <<current_playlist, current_index>>
        /\ last_call' = Call("delete_playlist", None)

\* The number of record files in the directory.
FileCount(d) == Cardinality({n \in Names : d[n] # None})

\* save_playlist: the record is written under the playlist's name, unless the
\* write fails.
SavePlaylist ==
    /\ UNCHANGED <<playerVars, fnVars>>
    /\ \E pos \in 1..Len(playlists), ok \in BOOLEAN :
        /\ disk' = IF ok THEN [disk EXCEPT ![playlists[pos].name] =
                                  Some(playlists[pos].songs)]
                   ELSE disk
        /\ FileCount(disk') <= MaxFiles
        /\ last_call' = Call("save_playlist", None)
        /\ UNCHANGED <<playlists, current_playlist, current_index>>

\* The manager's list after load_playlist read the record rec of that name.
LoadInto(pls, name, rec, ex) ==
    LET existing == get_playlist_by_name(pls, name)
    IN IF PlaylistTruthy(pls, existing)
       THEN [pls EXCEPT ![existing].songs = from_dict(rec, ex)]
       ELSE Append(pls, Playlist(NewObj(pls), name, from_dict(rec, ex)))

\* The identity of the playlist load_playlist returns.
LoadRet(pls, name) ==
    IF PlaylistTruthy(pls, get_playlist_by_name(pls, name))
    THEN pls[get_playlist_by_name(pls, name)].id
    ELSE NewObj(pls)

\* load_playlist(name): None when there is no file or it cannot be read (ok).
LoadPlaylist ==
    /\ UNCHANGED <<playerVars, fnVars>>
    /\ \E name \in Names :
       \E ok \in (IF disk[name] = None THEN {FALSE} ELSE BOOLEAN) :
       \E ex \in (IF ok THEN SUBSET SongPaths ELSE {{}}) :
        /\ IF disk[name] = None \/ ~ok
           THEN /\ last_call' = CallLoad(name, 0)
                /\ UNCHANGED playlists
           ELSE /\ Len(LoadInto(playlists, name, Val(disk[name]), ex)) <= MaxPlaylists
                /\ playlists' = LoadInto(playlists, name, Val(disk[name]), ex)
                /\ last_call' = CallLoad(name, LoadRet(playlists, name))
        /\ UNCHANGED <<current_playlist, current_index, disk>>

\* One file of load_all_playlists: appended unless a playlist of that name is
\* found (and is truthy).
LoadOne(pls, name, ex) ==
    IF disk[name] = None THEN pls
    ELSE IF ~PlaylistTruthy(pls, get_playlist_by_name(pls, name))
    THEN Append(pls, Playlist(NewObj(pls), name, from_dict(Val(disk[name]), ex)))
    ELSE pls

\* load_all_playlists: the files are visited in the order glob yields them.
LoadAllPlaylists ==
    /\ UNCHANGED <<playerVars, fnVars>>
    /\ \E first \in Names, ex \in SUBSET SongPaths :
        LET second == CHOOSE n \in Names : n # first
            result == LoadOne(LoadOne(playlists, first, ex), second, ex)
        IN /\ Len(result) <= MaxPlaylists
           /\ playlists' = result
           /\ last_call' = Call("load_all_playlists", None)
           /\ UNCHANGED <<current_playlist, current_index, disk>>

\* set_current_playlist(playlist), playlist one of the manager's or None (0).
SetCurrentPlaylist ==
    /\ UNCHANGED <<playerVars, fnVars>>
    /\ \E id \in {0} \cup {playlists[i].id : i \in 1..Len(playlists)} :
        /\ current_playlist' = id
        /\ current_index' = 0
        /\ last_call' = Call("set_current_playlist", None)
        /\ UNCHANGED <<playlists, disk>>

\* Mutant: next_song stops at the last song instead of wrapping.
NextSongNoWrap ==
    /\ UNCHANGED <<playerVars, fnVars>>
    /\ IF NoCurrentSongs
       THEN /\ last_call' = Call("next_song", None)
            /\ UNCHANGED current_index
       ELSE /\ current_index' = IF current_index + 1 >= Len(CurrentSongs)
                                THEN Len(CurrentSongs) - 1
                                ELSE current_index + 1
            /\ last_call' = Call("next_song", get_song(CurrentSongs, current_index'))
    /\ UNCHANGED <<playlists, current_playlist, disk>>

NextSong ==
    /\ UNCHANGED <<playerVars, fnVars>>
    /\ IF NoCurrentSongs
       THEN /\ last_call' = Call("next_song", None)
            /\ UNCHANGED current_index
       ELSE /\ current_index' = (current_index + 1) % Len(CurrentSongs)
            /\ last_call' = Call("next_song", get_song(CurrentSongs, current_index'))
    /\ UNCHANGED <<playlists, current_playlist, disk>>

\* Mutant: previous_song rewinds the cursor when there is nothing to play.
PreviousSongRewinds ==
    /\ UNCHANGED <<playerVars, fnVars>>
    /\ IF NoCurrentSongs
       THEN /\ last_call' = Call("previous_song", None)
            /\ current_index' = 0
       ELSE /\ current_index' = (current_index - 1) % Len(CurrentSongs)
            /\ last_call' = Call("previous_song", get_song(CurrentSongs, current_index'))
    /\ UNCHANGED <<playlists, current_playlist, disk>>

PreviousSong ==
    /\ UNCHANGED <<playerVars, fnVars>>
    /\ IF NoCurrentSongs
       THEN /\ last_call' = Call("previous_song", None)
            /\ UNCHANGED current_index
       ELSE /\ current_index' = (current_index - 1) % Len(CurrentSongs)
            /\ last_call' = Call("previous_song", get_song(CurrentSongs, current_index'))
    /\ UNCHANGED <<playlists, current_playlist, disk>>

CurrentSong ==
    /\ UNCHANGED <<playerVars, fnVars>>
    /\ last_call' = Call("current_song",
                         IF NoCurrentSongs THEN None
                         ELSE get_song(CurrentSongs, current_index))
    /\ UNCHANGED <<playlists, current_playlist, current_index, disk>>

AddSong ==
    /\ UNCHANGED <<playerVars, fnVars>>
    /\ \E pos \in 1..Len(playlists), song \in Songs :
        /\ playlists' = [playlists EXCEPT ![pos].songs = add_song(@, song)]
        /\ last_call' = Call("add_song", None)
        /\ UNCHANGED <<current_playlist, current_index, disk>>

RemoveSong ==
    /\ UNCHANGED <<playerVars, fnVars>>
    /\ \E pos \in 1..Len(playlists) :
        \E index \in -1..Len(playlists[pos].songs) :
            /\ playlists' = [playlists EXCEPT ![pos].songs = remove_song(@, index)]
            /\ last_call' = Call("remove_song", None)
            /\ UNCHANGED <<current_playlist, current_index, disk>>

Clear ==
    /\ UNCHANGED <<playerVars, fnVars>>
    /\ \E pos \in 1..Len(playlists) :
        /\ playlists' = [playlists EXCEPT ![pos].songs = <<>>]
        /\ last_call' = Call("clear", None)
        /\ UNCHANGED <<current_playlist, current_index, disk>>

Shuffle ==
    /\ UNCHANGED <<playerVars, fnVars>>
    /\ \E pos \in 1..Len(playlists) :
        \E order \in Shuffles(playlists[pos].songs) :
            /\ playlists' = [playlists EXCEPT ![pos].songs = order]
            /\ last_call' = Call("shuffle", None)
            /\ UNCHANGED <<current_playlist, current_index, disk>>

PlaylistNext ==
    \/ CreatePlaylist
    \/ DeletePlaylist
    \/ SavePlaylist
    \/ LoadPlaylist
    \/ LoadAllPlaylists
    \/ SetCurrentPlaylist
    \/ NextSong
    \/ PreviousSong
    \/ CurrentSong
    \/ AddSong
    \/ RemoveSong
    \/ Clear
    \/ Shuffle

\* ------------------------------------------------------ Playlist.from_dict
MaxRecord == 3

\* The song lists a record can hold: any entries, in any order, repeats included.
Records == UNION {[1..n -> Songs] : n \in 0..MaxRecord}

FdIdle == [rec |-> <<>>, ex |-> {}, out |-> <<>>, done |-> FALSE]

\* A record and the set of paths that exist when it is read.
FdInputs == {[rec |-> r, ex |-> e, out |-> <<>>, done |-> FALSE] :
                r \in Records, e \in SUBSET SongPaths}

\* Playlist.from_dict(data) on its own.
FromDict ==
    /\ ~fd.done
    /\ fd' = [fd EXCEPT !.out = from_dict(fd.rec, fd.ex), !.done = TRUE]
    /\ UNCHANGED <<playerVars, plVars, ed, sl, mm, bg, ev, sc, sk>>

\* ------------------------------------------------- ensure_duration alone
\* What a length source gives: -1 when it is missing or raises, else the
\* length it reports, in whole seconds.
Failed == -1
Lengths == {Failed} \cup (0..MaxDur)

\* The cache entries a path can have: none, one without a duration, one with.
CacheEntries ==
    {[present |-> FALSE, duration |-> 0]}
    \cup {[present |-> TRUE, duration |-> d] : d \in 0..MaxDur}

\* "length or 0" after the try: what the call goes by.
Reported(len) == IF len = Failed THEN 0 ELSE len

\* The sources one call consults, in order: none on a cache hit, the backend
\* only when the tag source gave nothing.
Consulted(entry, tag) ==
    IF entry.duration # 0 THEN <<>>
    ELSE IF Reported(tag) # 0 THEN <<"tag">>
    ELSE <<"tag", "backend">>

EdIdle == [entry |-> [present |-> FALSE, duration |-> 0], tag |-> Failed,
           snd |-> Failed, ret |-> 0, asked |-> <<>>,
           after |-> [present |-> FALSE, duration |-> 0], done |-> FALSE]

EdInputs == {[EdIdle EXCEPT !.entry = e, !.tag = t, !.snd = s, !.after = e] :
                e \in CacheEntries, t \in Lengths, s \in Lengths}

\* ensure_duration(path) on its own, the cache holding ed.entry for the path.
EnsureDuration ==
    /\ ~ed.done
    /\ LET p == CHOOSE q \in Paths : TRUE
           md == [q \in Paths |-> ed.entry]
           d == <<Reported(ed.tag), Reported(ed.snd)>>
           r == EnsureDurationRet(md, p, d)
       IN ed' = [ed EXCEPT !.ret = r,
                           !.asked = Consulted(ed.entry, ed.tag),
                           !.after = EnsureDurationCache(md, p, r)[p],
                           !.done = TRUE]
    /\ UNCHANGED <<playerVars, plVars, fd, sl, mm, bg, ev, sc, sk>>

\* ------------------------------------------------- strip_leading_numbers
MaxLen == 3

\* One character of each class the pattern ^\s*\d+[\s._-]* tells apart: a
\* digit, white space, one of . _ - and any other character.
Digit == "1"
Space == " "
Punct == "-"
Letter == "x"
Chars == {Digit, Space, Punct, Letter}

\* Strings, as sequences of characters.
Strings == UNION {[1..n -> Chars] : n \in 0..MaxLen}

\* The first position from i on whose character is not in set (Len + 1 if none):
\* where a greedy repetition of the class stops.
RECURSIVE SkipClass(_, _, _)
SkipClass(s, i, set) ==
    IF i > Len(s) \/ s[i] \notin set THEN i ELSE SkipClass(s, i + 1, set)

\* Mutant: the pattern without its leading \s*.
strip_leading_numbersNoSpace(s) ==
    IF s = <<>> THEN s
    ELSE LET afterDigits == SkipClass(s, 1, {Digit})
         IN IF afterDigits = 1 THEN s
            ELSE SubSeq(s, SkipClass(s, afterDigits, {Space, Punct}), Len(s))

\* re.sub(r'^\s*\d+[\s._-]*', '', s): the match, if there is one, is removed.
strip_leading_numbers(s) ==
    IF s = <<>> THEN s
    ELSE LET afterSpace == SkipClass(s, 1, {Space})
             afterDigits == SkipClass(s, afterSpace, {Digit})
         IN IF afterDigits = afterSpace THEN s
            ELSE SubSeq(s, SkipClass(s, afterDigits, {Space, Punct}), Len(s))

SlIdle == [arg |-> <<>>, once |-> <<>>, twice |-> <<>>, calls |-> 0]

SlInputs == {[SlIdle EXCEPT !.arg = s] : s \in Strings}

\* strip_leading_numbers(s), then strip_leading_numbers of what it returned.
StripLeadingNumbers ==
    /\ sl.calls = 0
    /\ sl' = [sl EXCEPT !.once = strip_leading_numbers(sl.arg), !.calls = 1]
    /\ UNCHANGED <<playerVars, plVars, fd, ed, mm, bg, ev, sc, sk>>

StripAgain ==
    /\ sl.calls = 1
    /\ sl' = [sl EXCEPT !.twice = strip_leading_numbers(sl.once), !.calls = 2]
    /\ UNCHANGED <<playerVars, plVars, fd, ed, mm, bg, ev, sc, sk>>

StripNext ==
    \/ StripLeadingNumbers
    \/ StripAgain

\* ------------------------------------------------------ get_mp3_metadata
\* Text fields are strings, <<>> standing for None and for ''; a record's key is
\* absent when its field is <<>> (duration: 0).
NoTags == [title |-> <<>>, artist |-> <<>>, album |-> <<>>]
EasyTags == [title : {<<>>, <<"T">>}, artist : {<<>>, <<"R">>}, album : {<<>>, <<"L">>}]
RawTags == [title : {<<>>, <<"U">>}, artist : {<<>>, <<"S">>}, album : {<<>>, <<"M">>}]
TagLengths == {Failed, 0, MaxDur}
Stems == {<<Letter>>, <<Digit, Space, Letter>>, <<Digit>>}
MetaEmpty == [title |-> <<>>, artist |-> <<>>, album |-> <<>>, duration |-> 0]

\* The outcomes of the tag source. lib: the tag library was imported. easy, raw:
\* what MutagenFile gives with and without easy=True ("raise", "none" for a
\* falsy result or, raw, for tags of None, "ok"). egot: how many of title,
\* artist, album the first try block read before a .get(...)[0] raised (3: all).
\* elen, rlen: info.length as int() gives it, Failed when that raises.
MmIdle == [lib |-> FALSE, easy |-> "none", etags |-> NoTags, egot |-> 3,
           elen |-> Failed, raw |-> "none", rtags |-> NoTags, rlen |-> Failed,
           stem |-> <<Letter>>, out |-> MetaEmpty, done |-> FALSE]

EasyOutcomes ==
    {[MmIdle EXCEPT !.lib = TRUE, !.easy = e] : e \in {"raise", "none"}}
    \cup {[MmIdle EXCEPT !.lib = TRUE, !.easy = "ok", !.etags = g, !.egot = n,
                         !.elen = l] :
            g \in EasyTags, n \in 0..3, l \in TagLengths}

MmInputs ==
    {[MmIdle EXCEPT !.stem = s] : s \in Stems}
    \cup UNION {{[e EXCEPT !.raw = r, !.stem = s] : r \in {"raise", "none"}, s \in Stems}
               \cup {[e EXCEPT !.raw = "ok", !.rtags = g, !.rlen = l, !.stem = s] :
                       g \in RawTags, l \in TagLengths, s \in Stems}
               : e \in EasyOutcomes}

\* title, artist, album and duration (Failed: None) after the easy read.
EasyFields(in) ==
    IF in.easy # "ok"
    THEN [title |-> <<>>, artist |-> <<>>, album |-> <<>>, duration |-> Failed]
    ELSE [title |-> IF in.egot >= 1 THEN in.etags.title ELSE <<>>,
          artist |-> IF in.egot >= 2 THEN in.etags.artist ELSE <<>>,
          album |-> IF in.egot >= 3 THEN in.etags.album ELSE <<>>,
          duration |-> in.elen]

\* The raw tags are read when the easy read left no title.
ReadsRaw(in) == EasyFields(in).title = <<>>

\* The fields after the raw read: a frame that has text replaces the field,
\* the raw length is taken when the duration is still None.
TagFields(in) ==
    LET e == EasyFields(in)
    IN IF ReadsRaw(in) /\ in.raw = "ok"
       THEN [title |-> IF in.rtags.title # <<>> THEN in.rtags.title ELSE e.title,
             artist |-> IF in.rtags.artist # <<>> THEN in.rtags.artist ELSE e.artist,
             album |-> IF in.rtags.album # <<>> THEN in.rtags.album ELSE e.album,
             duration |-> IF e.duration = Failed THEN in.rlen ELSE e.duration]
       ELSE e

\* Mutant: the fallback title is the stem as it is.
TitleOrStemUnstripped(title, stem) == IF title = <<>> THEN stem ELSE title

\* "if not title: title = strip_leading_numbers(path.stem)"
TitleOrStem(title, stem) ==
    IF title = <<>> THEN strip_leading_numbers(stem) ELSE title

\* The function returns {} at once without the library, and from its outer
\* except when one of the two MutagenFile calls raises.
get_mp3_metadata(in) ==
    IF ~in.lib \/ in.easy = "raise" \/ (ReadsRaw(in) /\ in.raw = "raise")
    THEN MetaEmpty
    ELSE LET f == TagFields(in)
         IN [title |-> TitleOrStem(f.title, in.stem),
             artist |-> f.artist,
             album |-> f.album,
             duration |-> IF f.duration > 0 THEN f.duration ELSE 0]

GetMp3Metadata ==
    /\ ~mm.done
    /\ mm' = [mm EXCEPT !.out = get_mp3_metadata(mm), !.done = TRUE]
    /\ UNCHANGED <<playerVars, plVars, fd, ed, sl, bg, ev, sc, sk>>

\* ---------------------------------------------------- get_osu_background
MaxLines == 3

\* The lines of a map file, by what the loop does with them: "events" is the
\* [Events] header, "section" any other line starting with '[', "image" a line
\* naming an image file that exists, "other" any other line.
LineKinds == {"events", "section", "image", "other"}

MapFiles == UNION {[1..n -> LineKinds] : n \in 0..MaxLines}

\* The loop over the lines from line i on: the number of the line whose image
\* is returned, 0 for None.
RECURSIVE ScanLines(_, _, _)
ScanLines(lines, i, in_events) ==
    IF i > Len(lines) THEN 0
    ELSE IF lines[i] = "events" THEN ScanLines(lines, i + 1, TRUE)
    ELSE IF ~in_events THEN ScanLines(lines, i + 1, FALSE)
    ELSE IF lines[i] = "section" THEN 0
    ELSE IF lines[i] = "image" THEN i
    ELSE ScanLines(lines, i + 1, TRUE)

\* None when the folder has no .osu file, else what the loop finds.
get_osu_background(found, lines) ==
    IF ~found THEN 0 ELSE ScanLines(lines, 1, FALSE)

BgIdle == [found |-> FALSE, lines |-> <<>>, out |-> 0, done |-> FALSE]

BgInputs == {BgIdle} \cup {[BgIdle EXCEPT !.found = TRUE, !.lines = l] : l \in MapFiles}

GetOsuBackground ==
    /\ ~bg.done
    /\ bg' = [bg EXCEPT !.out = get_osu_background(bg.found, bg.lines),
                        !.done = TRUE]
    /\ UNCHANGED <<playerVars, plVars, fd, ed, sl, mm, ev, sc, sk>>

\* ------------------------------- get_osu_background, on the lines' text
MaxEventLines == 3

\* The file a line refers to, by its extension, and whether it is in the folder.
Extensions == {"jpg", "gif", "avi"}

\* The text of a line: the [Events] header, another header, a line without a
\* file name, or a line Video,0,"name.ext" or 0,0,"name.ext",0,0.
HeadLines == {[head |-> h, ext |-> "avi", exists |-> FALSE] :
                h \in {"Events", "Section", "Text"}}
FileLines == [head : {"Video", "Event"}, ext : Extensions, exists : BOOLEAN]
TextLines == HeadLines \cup FileLines

MapTexts == UNION {[1..n -> TextLines] : n \in 0..MaxEventLines}

\* What the loop of osu_mp3_browser.py does with a line: the first quoted name
\* is taken whatever the line starts with, when it ends in .png, .jpg, .jpeg or
\* .bmp and the file exists.
KindScript(l) ==
    IF l.head = "Events" THEN "events"
    ELSE IF l.head = "Section" THEN "section"
    ELSE IF l.head \in {"Video", "Event"} /\ l.ext = "jpg" /\ l.exists THEN "image"
    ELSE "other"

\* What the loop of metadata.py does with a line: a Video, line is skipped, the
\* third field is taken when the file exists and ends in .jpg, .jpeg, .png,
\* .bmp or .gif.
KindPackage(l) ==
    IF l.head = "Events" THEN "events"
    ELSE IF l.head = "Section" THEN "section"
    ELSE IF l.head = "Event" /\ l.ext \in {"jpg", "gif"} /\ l.exists THEN "image"
    ELSE "other"

\* osu: "none" when the folder has no .osu file, "unreadable" when reading it
\* raises, "ok" otherwise. script, package: the line each copy returns, 0: None.
EvIdle == [osu |-> "none", lines |-> <<>>, script |-> 0, package |-> 0,
           done |-> FALSE]

EvInputs ==
    {EvIdle, [EvIdle EXCEPT !.osu = "unreadable"]}
    \cup {[EvIdle EXCEPT !.osu = "ok", !.lines = l] : l \in MapTexts}

ResolveBackground ==
    /\ ~ev.done
    /\ ev' = [ev EXCEPT
                !.script = get_osu_background(ev.osu = "ok",
                              [i \in 1..Len(ev.lines) |-> KindScript(ev.lines[i])]),
                !.package = get_osu_background(ev.osu = "ok",
                              [i \in 1..Len(ev.lines) |-> KindPackage(ev.lines[i])]),
                !.done = TRUE]
    /\ UNCHANGED <<playerVars, plVars, fd, ed, sl, mm, bg, sc, sk>>

\* ------------------------------------------- the backend calls of seek_to
\* What each backend call of one seek does if it is made: it returns ("ok") or
\* raises; play(0, float(pos)) may also raise TypeError, and is then made
\* again with the position as given.
SeekBackends ==
    [stop : {"ok", "raise"}, set_pos : {"ok", "raise"}, play_a : {"ok", "raise"},
     play_off : {"ok", "TypeError", "raise"}, play_off2 : {"ok", "raise"},
     play_c : {"ok", "raise"}]

\* One call made: the attempt it belongs to, the primitive, whether it returned.
Made(step, call, r) == [step |-> step, call |-> call, ok |-> r = "ok"]

\* Attempt (a): set_pos(pos), and play() when it returned.
AttemptSetPos(b) ==
    IF b.set_pos = "ok"
    THEN <<Made("a", "set_pos", b.set_pos), Made("a", "play", b.play_a)>>
    ELSE <<Made("a", "set_pos", b.set_pos)>>

\* Attempt (b): play(0, float(pos)), again with pos itself on a TypeError.
AttemptOffset(b) ==
    IF b.play_off = "TypeError"
    THEN <<Made("b", "play_offset", b.play_off), Made("b", "play_offset", b.play_off2)>>
    ELSE <<Made("b", "play_offset", b.play_off)>>

\* success after an attempt: its last call returned.
Succeeded(calls) == calls[Len(calls)].ok

\* Variant: the plain play() is made whatever the earlier attempts did.
SeekCallsAlwaysRestart(b) ==
    LET a == AttemptSetPos(b)
        o == IF Succeeded(a) THEN <<>> ELSE AttemptOffset(b)
    IN <<Made("stop", "stop", b.stop)>> \o a \o o \o <<Made("c", "play", b.play_c)>>

\* The backend calls of seek_to, in the order made.
SeekCalls(b) ==
    LET a == AttemptSetPos(b)
        o == IF Succeeded(a) THEN <<>> ELSE AttemptOffset(b)
        c == IF Succeeded(a \o o) THEN <<>> ELSE <<Made("c", "play", b.play_c)>>
    IN <<Made("stop", "stop", b.stop)>> \o a \o o \o c

SkIdle == [b |-> [stop |-> "ok", set_pos |-> "ok", play_a |-> "ok", play_off |-> "ok",
                  play_off2 |-> "ok", play_c |-> "ok"],
           calls |-> <<>>, done |-> FALSE]

SkInputs == {[SkIdle EXCEPT !.b = b] : b \in SeekBackends}

\* seek_to on a loaded track, for its backend calls.
SeekAttempts ==
    /\ ~sk.done
    /\ sk' = [sk EXCEPT !.calls = SeekCalls(sk.b), !.done = TRUE]
    /\ UNCHANGED <<playerVars, plVars, fd, ed, sl, mm, bg, ev, sc>>

\* ------------------------------------------------ scan threads and the cache
\* scan_and_populate runs in a thread of its own, started once at start-up and
\* once by every browse_folder; ensure_duration runs in the Tk thread.  One
\* step of a thread is one statement on the shared lists and the cache.
MaxScans == 2

Roots == {"r1", "r2"}

\* sorted(os_walk(root)): the mp3 files under each root.
RootFiles(r) == IF r = "r1" THEN <<"a">> ELSE <<"b">>

\* self._metadata.get(key, {}) of a path the cache does not hold.
NoEntry == [present |-> FALSE, tags |-> FALSE, duration |-> 0]

\* What get_mp3_metadata may return for p: {} (no tag library, or the read
\* raised), the tag fields without a duration, the tag fields and the length.
ScanRecords(p) ==
    {[present |-> TRUE, tags |-> FALSE, duration |-> 0],
     [present |-> TRUE, tags |-> TRUE, duration |-> 0],
     [present |-> TRUE, tags |-> TRUE, duration |-> FileLen(p)]}

ThreadIdle == [pc |-> "idle", todo |-> <<>>, meta |-> NoEntry, crossed |-> FALSE]

\* The application after construction: the start-up scan is due.
ScIdle ==
    [songs_dir |-> "r1",
     all_mp3_paths |-> <<>>,
     mp3_paths |-> <<>>,
     cache |-> [p \in Paths |-> NoEntry],
     threads |-> [i \in 1..MaxScans |-> IF i = 1 THEN [ThreadIdle EXCEPT !.pc = "clear"]
                                         ELSE ThreadIdle],
     playing |-> NoPath,
     ensure |-> [pc |-> "idle", key |-> NoPath, meta |-> NoEntry, crossed |-> FALSE]]

ScanUnchanged == UNCHANGED <<playerVars, plVars, fd, ed, sl, mm, bg, ev, sk>>

\* browse_folder with a directory chosen: songs_dir is replaced and a new
\* scan thread started, whatever the earlier threads are doing.
BrowseFolder ==
    /\ \E r \in Roots : \E i \in 1..MaxScans :
        /\ sc.threads[i].pc = "idle"
        /\ \A j \in 1..(i - 1) : sc.threads[j].pc # "idle"
        /\ sc' = [sc EXCEPT !.songs_dir = r, !.threads[i].pc = "clear"]
    /\ ScanUnchanged

\* scan_and_populate: mp3_paths.clear() and all_mp3_paths.clear().
ThreadClear ==
    /\ \E i \in 1..MaxScans :
        /\ sc.threads[i].pc = "clear"
        /\ sc' = [sc EXCEPT !.mp3_paths = <<>>, !.all_mp3_paths = <<>>,
                            !.threads[i].pc = "walk"]
    /\ ScanUnchanged

\* scan_and_populate: os_walk(self.songs_dir), of the directory that
\* self.songs_dir names when the loop starts.
ThreadWalk ==
    /\ \E i \in 1..MaxScans :
        /\ sc.threads[i].pc = "walk"
        /\ sc' = [sc EXCEPT !.threads[i].todo = RootFiles(sc.songs_dir),
                            !.threads[i].pc = "read"]
    /\ ScanUnchanged

\* scan_and_populate, at one file: meta = get_mp3_metadata(full); with no
\* file left, on to refresh_list.
ThreadRead ==
    /\ \E i \in 1..MaxScans :
        /\ sc.threads[i].pc = "read"
        /\ IF sc.threads[i].todo = <<>>
           THEN sc' = [sc EXCEPT !.threads[i].pc = "refresh"]
           ELSE \E m \in ScanRecords(Head(sc.threads[i].todo)) :
                    sc' = [sc EXCEPT !.threads[i].meta = m,
                                     !.threads[i].crossed = FALSE,
                                     !.threads[i].pc = "store"]
    /\ ScanUnchanged

\* scan_and_populate, at one file: self._metadata[str(full)] = meta.
ThreadStore ==
    /\ \E i \in 1..MaxScans :
        /\ sc.threads[i].pc = "store"
        /\ LET p == Head(sc.threads[i].todo) IN
           sc' = [sc EXCEPT !.cache[p] = sc.threads[i].meta,
                            !.ensure.crossed = @ \/ (sc.ensure.pc = "measure" /\ sc.ensure.key = p),
                            !.threads[i].pc = "append"]
    /\ ScanUnchanged

\* scan_and_populate, at one file: self.all_mp3_paths.append(...).
ThreadAppend ==
    /\ \E i \in 1..MaxScans :
        /\ sc.threads[i].pc = "append"
        /\ sc' = [sc EXCEPT !.all_mp3_paths = Append(@, Head(sc.threads[i].todo)),
                            !.threads[i].todo = Tail(@),
                            !.threads[i].pc = "read"]
    /\ ScanUnchanged

\* refresh_list with an empty query: the visible list is the full list.
ThreadRefresh ==
    /\ \E i \in 1..MaxScans :
        /\ sc.threads[i].pc = "refresh"
        /\ sc' = [sc EXCEPT !.mp3_paths = sc.all_mp3_paths,
                            !.threads[i].pc = "done"]
    /\ ScanUnchanged

\* play_selected: a row of the visible list becomes the playing path.
PlaySelected ==
    /\ \E k \in 1..Len(sc.mp3_paths) :
        /\ sc.playing # sc.mp3_paths[k]
        /\ sc' = [sc EXCEPT !.playing = sc.mp3_paths[k]]
    /\ ScanUnchanged

\* ensure_duration of the playing path, up to the length sources: the entry
\* is fetched, and the call goes on when it holds no duration.
EnsureRead ==
    /\ sc.ensure.pc = "idle"
    /\ sc.playing # NoPath
    /\ sc.cache[sc.playing].duration = 0
    /\ sc' = [sc EXCEPT !.ensure = [pc |-> "measure", key |-> sc.playing,
                                    meta |-> sc.cache[sc.playing], crossed |-> FALSE]]
    /\ ScanUnchanged

\* The entry ensure_duration writes back: the record it fetched, with the
\* length.
EnsureEntry(meta, length) == [meta EXCEPT !.present = TRUE, !.duration = length]

\* ensure_duration, after the length sources: a nonzero length is put into
\* the fetched record and the record stored under the key.
EnsureWrite ==
    /\ sc.ensure.pc = "measure"
    /\ \E length \in {0, FileLen(sc.ensure.key)} :
        IF length = 0
        THEN sc' = [sc EXCEPT !.ensure.pc = "idle"]
        ELSE sc' = [sc EXCEPT
                !.cache[sc.ensure.key] = EnsureEntry(sc.ensure.meta, length),
                !.threads = [i \in 1..MaxScans |->
                    IF sc.threads[i].pc = "store" /\ Head(sc.threads[i].todo) = sc.ensure.key
                    THEN [sc.threads[i] EXCEPT !.crossed = TRUE]
                    ELSE sc.threads[i]],
                !.ensure.pc = "idle"]
    /\ ScanUnchanged

ScanNext ==
    \/ BrowseFolder
    \/ ThreadClear
    \/ ThreadWalk
    \/ ThreadRead
    \/ ThreadStore
    \/ ThreadAppend
    \/ ThreadRefresh
    \/ PlaySelected
    \/ EnsureRead
    \/ EnsureWrite

\* -------------------------------------------------------- specifications
FunctionsIdle == fd = FdIdle /\ ed = EdIdle /\ sl = SlIdle /\ mm = MmIdle
                 /\ bg = BgIdle /\ ev = EvIdle /\ sc = ScIdle /\ sk = SkIdle

Init == PlayerInit /\ PlaylistInit /\ FunctionsIdle

\* The playback engine alone.
PlayerSpec == Init /\ [][PlayerNext]_vars

\* The playback engine when no seek is requested: every step after a play
\* comes before the next play, seek or stop.
UnsoughtSpec == Init /\ [][UnsoughtNext]_vars

\* The metadata cache under plays, polls, seeks and scans of the library.
LibrarySpec == Init /\ [][LibraryNext]_vars

\* The playlist store alone, beside an idle player.
PlaylistStoreInit == Init /\ mixer_init

PlaylistSpec == PlaylistStoreInit /\ [][PlaylistNext]_vars

\* Playlist.from_dict on every record and set of existing paths.
FromDictInit ==
    /\ PlayerInit /\ mixer_init /\ PlaylistInit
    /\ fd \in FdInputs
    /\ ed = EdIdle /\ sl = SlIdle /\ mm = MmIdle /\ bg = BgIdle /\ ev = EvIdle /\ sc = ScIdle /\ sk = SkIdle

FromDictSpec == FromDictInit /\ [][FromDict]_vars

\* ensure_duration on every cache entry and outcome of the two sources.
EnsureDurationInit ==
    /\ PlayerInit /\ mixer_init /\ PlaylistInit
    /\ fd = FdIdle /\ sl = SlIdle /\ mm = MmIdle /\ bg = BgIdle /\ ev = EvIdle /\ sc = ScIdle /\ sk = SkIdle
    /\ ed \in EdInputs

EnsureDurationSpec == EnsureDurationInit /\ [][EnsureDuration]_vars

\* strip_leading_numbers on every string, and on its own result.
StripInit ==
    /\ PlayerInit /\ mixer_init /\ PlaylistInit
    /\ fd = FdIdle /\ ed = EdIdle /\ mm = MmIdle /\ bg = BgIdle /\ ev = EvIdle /\ sc = ScIdle /\ sk = SkIdle
    /\ sl \in SlInputs

StripSpec == StripInit /\ [][StripNext]_vars

\* get_mp3_metadata on every outcome of the tag source.
MetadataInit ==
    /\ PlayerInit /\ mixer_init /\ PlaylistInit
    /\ fd = FdIdle /\ ed = EdIdle /\ sl = SlIdle /\ bg = BgIdle /\ ev = EvIdle /\ sc = ScIdle /\ sk = SkIdle
    /\ mm \in MmInputs

MetadataSpec == MetadataInit /\ [][GetMp3Metadata]_vars

\* get_osu_background on every map file.
BackgroundInit ==
    /\ PlayerInit /\ mixer_init /\ PlaylistInit
    /\ fd = FdIdle /\ ed = EdIdle /\ sl = SlIdle /\ mm = MmIdle
    /\ bg \in BgInputs
    /\ ev = EvIdle /\ sc = ScIdle /\ sk = SkIdle

BackgroundSpec == BackgroundInit /\ [][GetOsuBackground]_vars

\* Both copies of get_osu_background on every map file text.
ResolveInit ==
    /\ PlayerInit /\ mixer_init /\ PlaylistInit
    /\ fd = FdIdle /\ ed = EdIdle /\ sl = SlIdle /\ mm = MmIdle /\ bg = BgIdle
    /\ ev \in EvInputs /\ sc = ScIdle /\ sk = SkIdle

ResolveSpec == ResolveInit /\ [][ResolveBackground]_vars

\* The scan threads, browse_folder and ensure_duration of the playing path.
ScanInit ==
    /\ PlayerInit /\ mixer_init /\ PlaylistInit
    /\ fd = FdIdle /\ ed = EdIdle /\ sl = SlIdle /\ mm = MmIdle /\ bg = BgIdle
    /\ ev = EvIdle /\ sc = ScIdle /\ sk = SkIdle

ScanSpec == ScanInit /\ [][ScanNext]_vars

\* The backend calls of seek_to under every behaviour of the backend.
SeekCallsInit ==
    /\ PlayerInit /\ mixer_init /\ PlaylistInit
    /\ fd = FdIdle /\ ed = EdIdle /\ sl = SlIdle /\ mm = MmIdle /\ bg = BgIdle
    /\ ev = EvIdle /\ sc = ScIdle /\ sk \in SkInputs

SeekCallsSpec == SeekCallsInit /\ [][SeekAttempts]_vars

\* ================================================================ claims
\* The manual clock's elapsed position, in ticks, when playing and when paused.
Elapsed == now - Val(start_time)
PausedElapsed == Val(pause_time) - Val(start_time)

\* The cached duration, in seconds, of the track loaded before the step.
DurAfter == metadata'[playing_path].duration

\* C1: a seek_to(t) on a loaded track, with 0 <= t <= duration, ends with
\* startTimeBase = now - t, pauseTimestamp cleared and isPaused false,
\* whichever backend calls succeeded, so the elapsed time read then is t.
C1_SeekSetsClock ==
    [][\A pos \in Targets :
         (/\ lastOp'.op = "seek_to" /\ lastOp'.arg = pos
          /\ playing_path # NoPath
          /\ DurAfter # 0
          /\ 0 <= pos /\ pos <= DurAfter * TicksPerSec)
         => (/\ start_time' = Some(now' - pos)
             /\ pause_time' = None
             /\ ~paused'
             /\ Elapsed' = pos)]_vars

\* A seek to half a second, after time passed, in which every start attempt of
\* the backend failed: the clock is set all the same.
C1_Witness ==
    /\ lastOp.op = "seek_to" /\ lastOp.arg = 1
    /\ now > Epoch
    /\ \E p \in Paths : metadata[p].duration # 0
    /\ start_time = Some(now - 1)
    /\ pause_time = None
    /\ ~busy

\* C2: resume leaves the elapsed position where the pause froze it (so that it
\* is e + r after r more seconds), when the backend unpause succeeds and when
\* it fails and the engine re-seeks.
C2_ResumeKeepsPosition ==
    [][(/\ lastOp'.op \in {"resume", "resume_fallback"}
        /\ start_time # None /\ pause_time # None)
       => (start_time' # None /\ Elapsed' = PausedElapsed)]_vars

\* C3: while Paused, the position is the one frozen at the pause: no step
\* changes pauseTimestamp - startTimeBase, and every poll displays it.
C3_PausedFrozen ==
    [][(paused /\ paused')
       => (/\ start_time' # None /\ pause_time' # None
           /\ PausedElapsed' = PausedElapsed
           /\ lastOp'.op = "poll"
              => time_label'[1] = format_duration(IntSec(PausedElapsed)))]_vars

\* A poll while Paused, after time passed since the pause, the backend pause
\* having failed (the backend plays on).
C3_Witness ==
    /\ lastOp.op = "poll"
    /\ paused /\ pause_time # None
    /\ now > Val(pause_time)
    /\ Val(pause_time) > Val(start_time)
    /\ busy /\ ~bpaused

\* C4: with the duration d known, the elapsed position right after any seek
\* lies in [0, d]: a target above d gives d, a target below 0 gives 0.
C4_SeekClamped ==
    [][(/\ lastOp'.op = "seek_to"
        /\ playing_path # NoPath
        /\ metadata[playing_path].duration # 0)
       => (/\ 0 <= Elapsed'
           /\ Elapsed' <= metadata[playing_path].duration * TicksPerSec)]_vars

\* The poll of the step finds a track Playing and the backend not active.
PollFindsInactive ==
    /\ lastOp'.op = "poll"
    /\ playing_path # NoPath /\ ~paused
    /\ ~busy /\ ~bpaused

\* C5 as stated: such a poll makes the engine Idle and displays the track's
\* full duration.
C5_CompletionShowsDuration ==
    [][PollFindsInactive
       => (/\ playing_path' = NoPath
           /\ time_label' = <<format_duration(FileLen(playing_path)),
                              format_duration(FileLen(playing_path))>>
           /\ progress' = ProgressMax)]_vars

\* C5 amended: such a poll makes the engine Idle; it displays the full duration
\* when the duration is cached or that poll resolves it, and leaves the display
\* as it was when the duration is unknown.
C5_CompletionShowsKnownDuration ==
    [][PollFindsInactive
       => (/\ playing_path' = NoPath
           /\ IF DurAfter # 0
              THEN /\ time_label' = <<format_duration(DurAfter),
                                      format_duration(DurAfter)>>
                   /\ progress' = ProgressMax
              ELSE /\ time_label' = time_label
                   /\ progress' = progress)]_vars

\* A completion detected by a poll, the full duration on display.
C5_Witness ==
    /\ lastOp.op = "poll"
    /\ playing_path = NoPath
    /\ start_time # None /\ ~paused
    /\ progress = ProgressMax
    /\ time_label = <<format_duration(MaxDur), format_duration(MaxDur)>>

\* C6: after stop() the engine is Idle: no path, no timing, not paused, a zero
\* display and no poll pending.
C6_StopClearsAll ==
    lastOp.op = "stop"
    => (/\ playing_path = NoPath
        /\ start_time = None
        /\ pause_time = None
        /\ ~paused
        /\ progress = 0
        /\ time_label = <<ZeroText, ZeroText>>
        /\ timers = {})

\* A stop after a track had been played and its duration resolved.
C6_Witness ==
    /\ lastOp.op = "stop"
    /\ now > Epoch
    /\ \E p \in Paths : metadata[p].duration # 0
    /\ playing_path = NoPath /\ timers = {}

\* C7: a successful play(path) leaves the engine Playing path with
\* startTimeBase = now, pauseTimestamp cleared and isPaused false.
C7_PlayRestartsClock ==
    lastOp.op = "play"
    => (/\ playing_path = lastOp.path
        /\ start_time = Some(now)
        /\ pause_time = None
        /\ ~paused
        /\ Elapsed = 0)

\* A play of b after a was played and time passed.
C7_Witness ==
    /\ lastOp.op = "play" /\ lastOp.path = "b"
    /\ now > Epoch
    /\ metadata["a"].duration # 0
    /\ playing_path = "b"

\* C8: at most one progress poll is pending, it is the one whose id the engine
\* holds and it belongs to a loaded track; none is pending after stop, and
\* exactly one (the new track's) after a successful play.
C8_OnePollPending ==
    /\ Cardinality(timers) <= 1
    /\ timers # {} => (/\ playing_path # NoPath
                       /\ progress_after_id # None
                       /\ Val(progress_after_id) \in timers)
    /\ lastOp.op = "stop" => timers = {}
    /\ lastOp.op = "play" => Cardinality(timers) = 1

\* A play that superseded a track whose poll was pending.
C8_Witness ==
    /\ lastOp.op = "play" /\ lastOp.path = "b"
    /\ metadata["a"].duration # 0
    /\ Cardinality(timers) = 1

\* C9: whenever the current playlist has a song, the cursor is a valid index.
C9_CursorInRange ==
    Len(CurrentSongs) >= 1
    => (0 <= current_index /\ current_index < Len(CurrentSongs))

C11_AbsentWhenNothingToPlay ==
    [][/\ (/\ last_call'.op \in {"next_song", "previous_song", "current_song"}
           /\ NoCurrentSongs)
          => (/\ last_call'.ret = None
              /\ current_index' = current_index
              /\ current_playlist' = current_playlist
              /\ playlists' = playlists)
       /\ last_call'.op = "current_song"
          => (current_index' = current_index
              /\ current_playlist' = current_playlist)]_vars

\* previous_song on a current playlist that was emptied with the cursor at 1.
C11_Witness ==
    /\ last_call.op = "previous_song"
    /\ last_call.ret = None
    /\ current_playlist # 0
    /\ Len(CurrentSongs) = 0
    /\ current_index = 1

\* C13: no two playlists of the manager have the same name.
C13_UniqueNames ==
    \A i, j \in 1..Len(playlists) :
        playlists[i].name = playlists[j].name => i = j

\* C14: load_playlist(name), a playlist of that name being in memory and the
\* record being read, returns that object with its songs replaced by the
\* record's, and leaves the number of playlists and the current playlist as
\* they were.
C14_LoadMergesIntoExisting ==
    [][\A n \in Names :
        (/\ last_call'.op = "load_playlist"
         /\ last_call'.name = n
         /\ last_call'.obj # 0
         /\ get_playlist_by_name(playlists, n) # 0)
        => LET g == get_playlist_by_name(playlists, n)
           IN /\ last_call'.obj = playlists[g].id
              /\ Len(playlists') = Len(playlists)
              /\ current_playlist' = current_playlist
              /\ \E ex \in SUBSET SongPaths :
                    playlists'[g].songs = from_dict(Val(disk[n]), ex)]_vars

\* A song list without a repeated (path, title) pair.
NoDuplicates(songs) ==
    \A i, j \in 1..Len(songs) : songs[i] = songs[j] => i = j

\* C12: no playlist's song list holds the same (path, title) pair twice; here
\* for the playlist from_dict builds.
C12_NoDuplicateSongs == fd.done => NoDuplicates(fd.out)

\* The index in rec of the k-th entry whose path exists.
KthExisting(rec, ex, k) ==
    CHOOSE i \in 1..Len(rec) :
        /\ rec[i][1] \in ex
        /\ Cardinality({j \in 1..i : rec[j][1] \in ex}) = k

\* C15: the loaded playlist holds exactly the record's entries whose path
\* exists, in the record's order: as many as there are such entries, the k-th
\* of them at position k.
C15_LoadedIsExistingInOrder ==
    fd.done
    => (/\ Len(fd.out) = Cardinality({j \in 1..Len(fd.rec) : fd.rec[j][1] \in fd.ex})
        /\ \A k \in 1..Len(fd.out) :
              fd.out[k] = fd.rec[KthExisting(fd.rec, fd.ex, k)])

\* A record of three entries of which the first and the last are missing.
C15_Witness ==
    /\ fd.done
    /\ Len(fd.rec) = 3
    /\ fd.rec[1][1] \notin fd.ex /\ fd.rec[3][1] \notin fd.ex
    /\ fd.out = <<fd.rec[2]>>

\* C16: a nonzero duration in the cache stays, with the same value, at every
\* step.
C16_DurationKept ==
    [][\A p \in Paths :
        metadata[p].duration # 0
        => metadata'[p].duration = metadata[p].duration]_vars

\* C17: ensure_duration returns a cached nonzero duration without consulting
\* a source; otherwise it returns and caches the first nonzero length, the tag
\* source's before the backend's; when neither gives one it returns 0 and the
\* cache entry is as it was.
C17_EnsureDuration ==
    ed.done
    => IF ed.entry.duration # 0
       THEN /\ ed.ret = ed.entry.duration
            /\ ed.asked = <<>>
            /\ ed.after = ed.entry
       ELSE IF ed.tag > 0
       THEN /\ ed.ret = ed.tag
            /\ ed.asked = <<"tag">>
            /\ ed.after = [present |-> TRUE, duration |-> ed.tag]
       ELSE IF ed.snd > 0
       THEN /\ ed.ret = ed.snd
            /\ ed.asked = <<"tag", "backend">>
            /\ ed.after = [present |-> TRUE, duration |-> ed.snd]
       ELSE /\ ed.ret = 0
            /\ ed.after = ed.entry

\* No entry for the path, the tag read raising and the backend reporting zero.
C17_Witness ==
    /\ ed.done
    /\ ~ed.entry.present
    /\ ed.tag = Failed /\ ed.snd = 0
    /\ ed.ret = 0
    /\ ~ed.after.present

\* C19 as stated: strip_leading_numbers applied to its own result returns
\* that result.
C19_StripIdempotent == sl.calls = 2 => sl.twice = sl.once

\* The string begins, after any white space, with a digit.
StartsWithNumber(s) ==
    \E i \in 1..Len(s) : s[i] = Digit /\ \A j \in 1..(i - 1) : s[j] = Space

\* C19 amended: a second application returns the result of the first exactly
\* when that result does not itself begin with a number; when it does (the
\* name held a second group of digits), the second application removes it too.
C19_StripTwice ==
    sl.calls = 2
    => /\ (sl.twice = sl.once) <=> ~StartsWithNumber(sl.once)
       /\ StartsWithNumber(sl.once) => Len(sl.twice) < Len(sl.once)
       /\ ~StartsWithNumber(sl.arg) => sl.once = sl.arg

\* A name with an id, a separator and text: once stripped it stays as it is.
C19_Witness ==
    /\ sl.calls = 2
    /\ sl.arg = <<Digit, Space, Letter>>
    /\ sl.once = <<Letter>>
    /\ sl.twice = <<Letter>>

\* The title the tags give: the easy title if it was read, else the TIT2
\* frame's text, <<>> when there is neither.
TagTitle ==
    IF mm.easy = "ok" /\ mm.egot >= 1 /\ mm.etags.title # <<>> THEN mm.etags.title
    ELSE IF mm.raw = "ok" THEN mm.rtags.title
    ELSE <<>>

\* C18 as stated: whatever the tag source does, the record returned has a
\* title, the tag title when there is one and the stripped file stem otherwise.
C18_TitleAlways ==
    mm.done
    => /\ mm.out.title # <<>>
       /\ mm.out.title = IF TagTitle # <<>> THEN TagTitle
                         ELSE strip_leading_numbers(mm.stem)

\* The call ends in one of its two "return {}".
ReturnsEmpty ==
    \/ ~mm.lib
    \/ mm.easy = "raise"
    \/ /\ ~(mm.easy = "ok" /\ mm.egot >= 1 /\ mm.etags.title # <<>>)
       /\ mm.raw = "raise"

\* C18 amended: without the tag library, or when an open of the file by it
\* raises, the record returned is empty; otherwise its title is the tag title
\* when there is one and else the stripped file stem, the record having no
\* title when that is empty.
C18_TitleUnlessEmpty ==
    mm.done
    => IF ReturnsEmpty THEN mm.out = MetaEmpty
       ELSE mm.out.title = IF TagTitle # <<>> THEN TagTitle
                           ELSE strip_leading_numbers(mm.stem)

\* A file without readable tags whose stem is an id, a space and text.
C18_Witness ==
    /\ mm.done
    /\ mm.lib /\ mm.easy = "none" /\ mm.raw = "none"
    /\ mm.stem = <<Digit, Space, Letter>>
    /\ mm.out = [MetaEmpty EXCEPT !.title = <<Letter>>]

\* The line starts with '[': the [Events] header or another section's.
IsHeader(kind) == kind \in {"events", "section"}

\* C20: the image returned comes from a line after the first [Events] header
\* and before the next line starting with '['.
C20_FirstEventsSectionOnly ==
    (bg.done /\ bg.out # 0)
    => \E h \in 1..(bg.out - 1) :
          /\ bg.lines[h] = "events"
          /\ \A j \in 1..(h - 1) : bg.lines[j] # "events"
          /\ \A j \in (h + 1)..(bg.out - 1) : ~IsHeader(bg.lines[j])

\* C21: a Video, line is never the source of the background returned, by
\* either copy of the function.
C21_VideoSkipped ==
    ev.done
    => /\ ev.script # 0 => ev.lines[ev.script].head # "Video"
       /\ ev.package # 0 => ev.lines[ev.package].head # "Video"

\* The line qualifies: it is not a Video line, its file exists and has an
\* accepted extension.
Qualifies(l) == l.head = "Event" /\ l.exists /\ l.ext \in {"jpg", "gif"}

\* The lines of the section: after the first [Events] header, before the next
\* line starting with '['.
InSection(lines, i) ==
    \E h \in 1..(i - 1) :
        /\ lines[h].head = "Events"
        /\ \A j \in 1..(h - 1) : lines[j].head # "Events"
        /\ \A j \in (h + 1)..i : lines[j].head \notin {"Events", "Section"}

\* The first qualifying line of the section, 0 when there is none.
FirstQualifying(lines) ==
    IF \E i \in 1..Len(lines) : InSection(lines, i) /\ Qualifies(lines[i])
    THEN CHOOSE i \in 1..Len(lines) :
            /\ InSection(lines, i) /\ Qualifies(lines[i])
            /\ \A j \in 1..(i - 1) : ~(InSection(lines, j) /\ Qualifies(lines[j]))
    ELSE 0

\* C22: each copy returns the first qualifying line of the section, and None
\* when there is none, no map file, or an error reading it.
C22_FirstQualifyingImage ==
    ev.done
    => /\ ev.script = FirstQualifying(ev.lines)
       /\ ev.package = FirstQualifying(ev.lines)

\* Every scan thread has run to its end (or was never started).
ScansFinished == \A i \in 1..MaxScans : sc.threads[i].pc \in {"idle", "done"}

\* C23: a scan requested while an earlier one runs supersedes it: once all scan
\* threads have finished, the library list holds exactly the files of the root
\* requested last, each once and none from the superseded scan.
C23_LastScanWins ==
    ScansFinished => sc.all_mp3_paths = RootFiles(sc.songs_dir)

\* ensure_duration stores its record after a scan thread stored one under the
\* same key, between the fetch and the store.
EnsureStoresAcross ==
    /\ sc.ensure.pc = "measure" /\ sc.ensure.crossed
    /\ sc'.ensure.pc = "idle"
    /\ sc'.cache # sc.cache

\* Thread i stores its record after ensure_duration stored a duration under
\* the same key, between the thread's tag read and its store.
ThreadStoresAcross(i) ==
    /\ sc.threads[i].pc = "store" /\ sc.threads[i].crossed
    /\ sc'.threads[i].pc = "append"

\* C29: when ensure_duration and a scan thread write the entry of one path in
\* interleaved order, no update is lost: after the later of the two writes the
\* entry holds the tag fields the scan read and a duration.
C29_NoLostUpdate ==
    [][/\ EnsureStoresAcross =>
            /\ sc'.cache[sc.ensure.key].tags = sc.cache[sc.ensure.key].tags
            /\ sc'.cache[sc.ensure.key].duration # 0
       /\ \A i \in 1..MaxScans : ThreadStoresAcross(i) =>
            /\ sc'.cache[Head(sc.threads[i].todo)].tags = sc.threads[i].meta.tags
            /\ sc'.cache[Head(sc.threads[i].todo)].duration # 0]_vars

\* The calls of one attempt, and whether the attempt started playback.
StepCalls(step) == {i \in 1..Len(sk.calls) : sk.calls[i].step = step}
Attempted(step) == StepCalls(step) # {}
StepStarted(step) ==
    /\ Attempted(step)
    /\ \E i \in StepCalls(step) :
        /\ sk.calls[i].ok
        /\ \A j \in StepCalls(step) : j <= i

\* C24: seek_to stops the backend, then tries set_pos and play, play with an
\* offset, and plain play, in that order; an attempt is made only if every
\* earlier one failed, so at most one of them starts playback.
C24_StartAttemptsInOrder ==
    sk.done
    => /\ sk.calls[1].call = "stop"
       /\ Attempted("a")
       /\ \A i, j \in 1..Len(sk.calls) :
            i < j => <<sk.calls[i].step, sk.calls[j].step>> \in
                        {<<"stop", "a">>, <<"stop", "b">>, <<"stop", "c">>,
                         <<"a", "a">>, <<"a", "b">>, <<"a", "c">>,
                         <<"b", "b">>, <<"b", "c">>}
       /\ Attempted("b") <=> ~StepStarted("a")
       /\ Attempted("c") <=> ~StepStarted("a") /\ ~StepStarted("b")
       /\ Cardinality({st \in {"a", "b", "c"} : StepStarted(st)}) <= 1

\* A seek whose first attempt fails and whose second starts playback.
C24_Witness ==
    /\ sk.done
    /\ ~StepStarted("a") /\ StepStarted("b") /\ ~Attempted("c")

\* C25: after seek_to on a loaded track and after a resume from Paused the
\* state is Playing with the same currentPath, whichever backend calls
\* succeeded and whatever the backend reports as its activity afterwards.
C25_SeekAndResumePlaying ==
    [][(/\ lastOp'.op \in {"seek_to", "resume", "resume_fallback"}
        /\ playing_path # NoPath)
       => (playing_path' = playing_path /\ ~paused')]_vars

\* C26: while Paused, a poll that finds the backend not active does not
\* complete the track: currentPath is kept, the engine stays Paused and the
\* position displayed is the frozen one.
C26_PausedPollNeverCompletes ==
    [][(/\ lastOp'.op = "poll"
        /\ paused /\ playing_path # NoPath
        /\ ~busy /\ ~bpaused)
       => (/\ playing_path' = playing_path
           /\ paused'
           /\ start_time' = start_time /\ pause_time' = pause_time
           /\ start_time # None /\ pause_time # None
           /\ time_label'[1] = format_duration(IntSec(PausedElapsed)))]_vars

\* A poll while Paused with the backend at the end of its stream (its pause
\* had failed and the track ran out), a tick after the pause.
C26_Witness ==
    /\ lastOp.op = "poll"
    /\ paused /\ playing_path # NoPath
    /\ ~busy /\ ~bpaused
    /\ pause_time # None /\ now > Val(pause_time)
    /\ progress_after_id # None

\* C27: whenever currentPath is absent, startTimeBase and pauseTimestamp are
\* absent and isPaused is false: after natural completion as after stop.
C27_IdleIsEmpty ==
    playing_path = NoPath
    => (start_time = None /\ pause_time = None /\ ~paused)

\* C28: in Idle, toggle_pause, seek_to and a click on the progress bar do
\* nothing: the backend is not called, no field of the playback state changes
\* and no poll is scheduled.
C28_IdleNoOps ==
    [][(/\ lastOp'.op \in {"toggle_idle", "seek_idle", "click"}
        /\ playing_path = NoPath)
       => (/\ UNCHANGED <<busy, bpaused>>
           /\ UNCHANGED <<playing_path, start_time, pause_time, paused>>
           /\ UNCHANGED <<timers, progress_after_id>>
           /\ UNCHANGED <<metadata, progress, time_label, pause_btn>>)]_vars

\* toggle_pause in Idle with the mixer initialised, after a track was played
\* and stopped.
C28_Witness ==
    /\ lastOp.op = "toggle_idle"
    /\ mixer_init /\ playing_path = NoPath
    /\ ~paused /\ pause_time = None /\ start_time = None
    /\ \E p \in Paths : metadata[p].duration # 0

\* The text of a field's raw frame, <<>> when the file has no raw tags.
RawField(f) == IF mm.raw = "ok" THEN mm.rtags[f] ELSE <<>>

\* C30: artist and album are resolved field by field: the value of the
\* friendly view when it gave one, never replaced by the raw frame's, and else
\* the raw frame's text, whether or not the friendly view gave a title.
C30_PerFieldFallback ==
    (mm.done /\ mm.lib /\ mm.easy # "raise" /\ mm.raw # "raise")
    => \A f \in {"artist", "album"} :
          mm.out[f] = IF EasyFields(mm)[f] # <<>> THEN EasyFields(mm)[f]
                      ELSE RawField(f)

\* The seconds a label text stands for: '' and "0:00" for none.
LabelSeconds(text) == IF text = <<>> THEN 0 ELSE text[1] * 60 + text[2]

\* The elapsed position on display.
Shown == LabelSeconds(time_label[1])

\* C31: between a play and the next play, seek or stop, whatever the pauses,
\* resumes (the backend unpause succeeding or failing), polls and passing time
\* in between, the elapsed position on display never decreases.
C31_DisplayNeverDecreases ==
    [][(/\ lastOp'.op \in {"pause", "resume", "resume_fallback", "poll",
                           "tick", "track_end"}
        /\ playing_path # NoPath)
       => Shown' >= Shown]_vars

\* C32: a play that fails while a track X is being played does not leave the
\* engine with a running clock for X once the backend has dropped X, so that
\* no later poll reports X as completed.
C32_FailedPlayKeepsNoClock ==
    [][(/\ lastOp'.op = "play_failed"
        /\ playing_path # NoPath /\ busy
        /\ ~busy')
       => ~(playing_path' = playing_path /\ ~paused' /\ start_time' # None)]_vars

\* C33: after every operation, isPaused is true exactly when pauseTimestamp
\* is set, and startTimeBase is set whenever currentPath is.
C33_PauseFieldsAgree ==
    /\ paused <=> pause_time # None
    /\ playing_path # NoPath => start_time # None

\* A track paused after time passed, a poll having run since.
C33_Witness ==
    /\ lastOp.op = "poll"
    /\ playing_path # NoPath
    /\ paused /\ pause_time # None
    /\ start_time # None /\ Val(pause_time) > Val(start_time)

\* C34: the pause button reads "Resume" exactly when isPaused is true and
\* "Pause" otherwise, after any sequence of plays, pauses, resumes, seeks (also
\* a seek while Paused) and stops.
C34_ButtonNamesAction ==
    pause_btn = (IF paused THEN "Resume" ELSE "Pause")

====
